---- MODULE Spec2Model ----
(***************************************************************************)
(* Model of the deliberate-thinking server (src/src/main.rs): the session  *)
(* state behind the `deliberatethinking` tool, i.e. the thought history    *)
(* (main line, named branches, active-branch pointer) and the team state   *)
(* (PM summaries, discussion log, backlog, sprint, consensus, waiting      *)
(* flag), the request validator, the merge of a request into the team      *)
(* state, the graph update, the report and the locking of the handler.     *)
(*                                                                         *)
(* Conventions.  Option<T> is a sequence of length <= 1: <<>> is None and  *)
(* <<v>> is Some(v).  A String the code trims or compares is a sequence of *)
(* one-character strings; a branch id, which the code only uses as a map   *)
(* key, is an atom.  A HashMap is a function whose DOMAIN is its key set.  *)
(***************************************************************************)
EXTENDS Integers, Sequences, FiniteSets, TLC

VARIABLES
    state,      \* the DeliberateThinkingState behind the Mutex
    request,    \* the request of the latest call (<<>> before the first)
    response,   \* what the latest call returned (<<>> before the first)
    prev,       \* `state` as it was when the latest call started
    calls,      \* number of calls made so far
    lock,       \* holder of the Mutex: <<>> or <<p>>
    pc,         \* per caller: position inside deliberate_thinking
    local       \* per caller: request, entry snapshot, team_outcome, response

vars == <<state, request, response, prev, calls, lock, pc, local>>

----------------------------------------------------------------------------
(* Bounds of the model *)

MaxCalls == 3

MaxOrd == 2

NumCallers == 2

----------------------------------------------------------------------------
(* Option and string helpers *)

None == <<>>

Some(v) == <<v>>

IsSome(o) == o # <<>>

Unwrap(o) == o[1]

IsWhitespace(c) == c = " "

RECURSIVE TrimStart(_)
TrimStart(s) ==
    IF s = <<>> THEN <<>>
    ELSE IF IsWhitespace(Head(s)) THEN TrimStart(Tail(s))
    ELSE s

RECURSIVE TrimEnd(_)
TrimEnd(s) ==
    IF s = <<>> THEN <<>>
    ELSE IF IsWhitespace(s[Len(s)]) THEN TrimEnd(SubSeq(s, 1, Len(s) - 1))
    ELSE s

\* str::trim_start in the place of str::trim
TrimLeading(s) == TrimStart(s)

\* str::trim
Trim(s) == TrimEnd(TrimStart(s))

----------------------------------------------------------------------------
(* Enumerations *)

TeamRole == {"ProjectManager", "PragmaticProgrammer", "ProductVisionary"}

PriorityLevel == {"High", "Medium", "Low"}

StoryStatus == {"Todo", "InProgress", "Blocked", "Done"}

PriorityRank(p) ==
    CASE p = "High" -> 0
      [] p = "Medium" -> 1
      [] p = "Low" -> 2

\* the rank a derived Ord would give: the declaration order of StoryStatus
StatusRankAsDeclared(s) ==
    CASE s = "Todo" -> 0
      [] s = "InProgress" -> 1
      [] s = "Blocked" -> 2
      [] s = "Done" -> 3

StatusRank(s) ==
    CASE s = "InProgress" -> 0
      [] s = "Todo" -> 1
      [] s = "Blocked" -> 2
      [] s = "Done" -> 3

----------------------------------------------------------------------------
(* RequestValidator *)

ValidateMinValue(value, min) == value >= min

\* validate_non_empty without the trim: value.is_empty()
ValidateNonEmptyUntrimmed(value) == value # <<>>

ValidateNonEmpty(value) == Trim(value) # <<>>

\* DeliberateThinkingRequest::validate: TRUE iff it returns Ok(())
Validate(req) ==
    /\ ValidateMinValue(req.thought_number, 1)
    /\ ValidateMinValue(req.total_thoughts, 1)
    /\ IsSome(req.revises_thought) => ValidateMinValue(Unwrap(req.revises_thought), 1)
    /\ IsSome(req.branch_from_thought) =>
           ValidateMinValue(Unwrap(req.branch_from_thought), 1)
    /\ ~(req.role = Some("ProjectManager") /\ Trim(req.thought) = <<>>)
    /\ \A i \in 1..Len(req.discussion_points) :
           ValidateNonEmpty(req.discussion_points[i].detail)
    /\ \A i \in 1..Len(req.backlog_stories) :
           /\ ValidateNonEmpty(req.backlog_stories[i].id)
           /\ ValidateNonEmpty(req.backlog_stories[i].title)
    /\ \A i \in 1..Len(req.remove_story_ids) :
           ValidateNonEmpty(req.remove_story_ids[i])
    /\ IsSome(req.sprint_plan) =>
           /\ ValidateNonEmpty(Unwrap(req.sprint_plan).sprint_name)
           /\ ValidateNonEmpty(Unwrap(req.sprint_plan).goal)
           /\ ValidateMinValue(Unwrap(req.sprint_plan).duration_days, 1)

----------------------------------------------------------------------------
(* TeamState *)

EmptyMap == [k \in {} |-> k]

\* ConsensusState::default
DefaultConsensus ==
    [ready_for_code_changes |-> FALSE, blockers |-> <<>>, notes |-> None]

\* TeamState::default
DefaultTeam ==
    [pm_summaries |-> <<>>,
     discussion_log |-> <<>>,
     backlog |-> EmptyMap,
     active_sprint |-> None,
     consensus |-> DefaultConsensus,
     awaiting_user_input |-> FALSE]

\* TeamUpdateOutcome::default
DefaultOutcome ==
    [pm_summary |-> None,
     new_discussion_points |-> <<>>,
     backlog_changes |-> <<>>,
     sprint_plan_updated |-> None,
     consensus_state |-> None,
     awaiting_user_input |-> None]

BacklogChange(change_type, item) == [change_type |-> change_type, item |-> item]

\* the upsert loop with entry(id).or_insert(story): an id already in the
\* backlog keeps its item
RECURSIVE UpsertStoriesKeepFirst(_, _, _)
UpsertStoriesKeepFirst(backlog, changes, stories) ==
    IF stories = <<>> THEN [backlog |-> backlog, changes |-> changes]
    ELSE LET story == Head(stories)
             change_type == IF story.id \in DOMAIN backlog THEN "Updated" ELSE "Added"
         IN  UpsertStoriesKeepFirst(backlog @@ (story.id :> story),
                                    Append(changes, BacklogChange(change_type, story)),
                                    Tail(stories))

\* the loop over request.backlog_stories: insert or overwrite by id
RECURSIVE UpsertStories(_, _, _)
UpsertStories(backlog, changes, stories) ==
    IF stories = <<>> THEN [backlog |-> backlog, changes |-> changes]
    ELSE LET story == Head(stories)
             change_type == IF story.id \in DOMAIN backlog THEN "Updated" ELSE "Added"
         IN  UpsertStories((story.id :> story) @@ backlog,
                           Append(changes, BacklogChange(change_type, story)),
                           Tail(stories))

\* the removal loop without the `if let Some(removed)`: every id asked for
\* is reported as Removed, in the backlog or not
RECURSIVE RemoveStoriesReportingAll(_, _, _)
RemoveStoriesReportingAll(backlog, changes, ids) ==
    IF ids = <<>> THEN [backlog |-> backlog, changes |-> changes]
    ELSE LET story_id == Head(ids)
             removed == IF story_id \in DOMAIN backlog THEN backlog[story_id]
                        ELSE [id |-> story_id, title |-> <<>>]
         IN  RemoveStoriesReportingAll(
                 [k \in DOMAIN backlog \ {story_id} |-> backlog[k]],
                 Append(changes, BacklogChange("Removed", removed)),
                 Tail(ids))

\* the loop over request.remove_story_ids: remove if present
RECURSIVE RemoveStories(_, _, _)
RemoveStories(backlog, changes, ids) ==
    IF ids = <<>> THEN [backlog |-> backlog, changes |-> changes]
    ELSE LET story_id == Head(ids)
         IN  IF story_id \in DOMAIN backlog
             THEN RemoveStories([k \in DOMAIN backlog \ {story_id} |-> backlog[k]],
                                Append(changes,
                                       BacklogChange("Removed", backlog[story_id])),
                                Tail(ids))
             ELSE RemoveStories(backlog, changes, Tail(ids))

\* the discussion points loop skipping a point the log already holds
LogPointsOnce(log, points) ==
    log \o SelectSeq(points, LAMBDA point :
                         \A i \in 1..Len(log) : log[i] # point)

\* the two backlog loops in the other order: removals, then upserts
MergeBacklogRemovingFirst(backlog, stories, ids) ==
    UpsertStories(RemoveStories(backlog, <<>>, ids).backlog,
                  RemoveStories(backlog, <<>>, ids).changes,
                  stories)

\* the two backlog loops of process_request: upserts, then removals
MergeBacklog(backlog, stories, ids) ==
    RemoveStories(UpsertStories(backlog, <<>>, stories).backlog,
                  UpsertStories(backlog, <<>>, stories).changes,
                  ids)

\* the loop that pushes the request's discussion points onto the log
LogPoints(log, points) == log \o points

\* the derived discussion point made whether or not the request carries
\* explicit points
DerivesPointBesideExplicit(req) ==
    /\ IsSome(req.role)
    /\ req.role # Some("ProjectManager")
    /\ Trim(req.thought) # <<>>

\* whether the thought of a request becomes a derived discussion point:
\* a role other than project manager, no explicit points, a non-blank thought
DerivesPoint(req) ==
    /\ IsSome(req.role)
    /\ req.role # Some("ProjectManager")
    /\ req.discussion_points = <<>>
    /\ Trim(req.thought) # <<>>

\* the consensus update reading an empty blocker list as "not supplied":
\* the stored blockers are kept
MergeConsensusKeepingBlockers(consensus, update) ==
    [ready_for_code_changes |-> update.ready_for_code_changes,
     blockers |-> IF update.blockers = <<>> THEN consensus.blockers
                  ELSE update.blockers,
     notes |-> update.notes]

\* the three assignments from a ConsensusUpdate
MergeConsensus(consensus, update) ==
    [ready_for_code_changes |-> update.ready_for_code_changes,
     blockers |-> update.blockers,
     notes |-> update.notes]

\* the sprint plan kept once set (Option::get_or_insert): a later plan is
\* dropped
MergeSprintKeepingFirst(active_sprint, sprint_plan) ==
    IF IsSome(active_sprint) THEN active_sprint ELSE sprint_plan

\* if let Some(plan) = &request.sprint_plan
MergeSprint(active_sprint, sprint_plan) ==
    IF IsSome(sprint_plan) THEN sprint_plan ELSE active_sprint

\* the waiting flag as request.requires_user_input.unwrap_or(false)
MergeWaitingOrFalse(awaiting_user_input, requires_user_input) ==
    IF IsSome(requires_user_input) THEN Unwrap(requires_user_input) ELSE FALSE

\* if let Some(needs_input) = request.requires_user_input
MergeWaiting(awaiting_user_input, requires_user_input) ==
    IF IsSome(requires_user_input) THEN Unwrap(requires_user_input)
    ELSE awaiting_user_input

\* TeamState::process_request: the merged team state and the outcome (delta)
ProcessRequest(team, req) ==
    LET points == req.discussion_points
        is_pm == req.role = Some("ProjectManager")
        trimmed == Trim(req.thought)
        summarise == is_pm /\ trimmed # <<>>
        derive == DerivesPoint(req)
        derived == IF derive
                   THEN <<[role |-> Unwrap(req.role), detail |-> trimmed]>>
                   ELSE <<>>
        removed == MergeBacklog(team.backlog, req.backlog_stories,
                                req.remove_story_ids)
        consensus == IF IsSome(req.consensus_update)
                     THEN MergeConsensus(team.consensus, Unwrap(req.consensus_update))
                     ELSE team.consensus
    IN  [team |->
             [pm_summaries |-> IF summarise THEN Append(team.pm_summaries, trimmed)
                               ELSE team.pm_summaries,
              discussion_log |-> LogPoints(team.discussion_log, points) \o derived,
              backlog |-> removed.backlog,
              active_sprint |-> MergeSprint(team.active_sprint, req.sprint_plan),
              consensus |-> consensus,
              awaiting_user_input |-> MergeWaiting(team.awaiting_user_input,
                                                   req.requires_user_input)],
         outcome |->
             [pm_summary |-> IF summarise THEN Some(trimmed) ELSE None,
              new_discussion_points |-> points \o derived,
              backlog_changes |-> removed.changes,
              sprint_plan_updated |-> req.sprint_plan,
              consensus_state |-> IF IsSome(req.consensus_update)
                                  THEN Some(consensus) ELSE None,
              awaiting_user_input |-> req.requires_user_input]]

----------------------------------------------------------------------------
(* ReportGenerator *)

\* byte value of the characters the model's strings are made of
CharCode(c) ==
    CASE c = " " -> 32
      [] c = "A" -> 65
      [] c = "B" -> 66
      [] c = "k" -> 107
      [] c = "n" -> 110

\* String's Ord: lexicographic on bytes, a proper prefix is smaller
RECURSIVE StrLess(_, _)
StrLess(a, b) ==
    IF b = <<>> THEN FALSE
    ELSE IF a = <<>> THEN TRUE
    ELSE IF CharCode(Head(a)) # CharCode(Head(b))
         THEN CharCode(Head(a)) < CharCode(Head(b))
    ELSE StrLess(Tail(a), Tail(b))

\* the comparator of ordered_backlog: Ordering::Less
ItemLess(a, b) ==
    IF PriorityRank(a.priority) # PriorityRank(b.priority)
    THEN PriorityRank(a.priority) < PriorityRank(b.priority)
    ELSE IF StatusRank(a.status) # StatusRank(b.status)
         THEN StatusRank(a.status) < StatusRank(b.status)
    ELSE StrLess(a.id, b.id)

RECURSIVE SortItems(_)
SortItems(items) ==
    IF items = {} THEN <<>>
    ELSE LET first == CHOOSE x \in items : \A y \in items \ {x} : ItemLess(x, y)
         IN  <<first>> \o SortItems(items \ {first})

\* TeamState::ordered_backlog
OrderedBacklog(team) == SortItems({team.backlog[k] : k \in DOMAIN team.backlog})

\* BacklogChange::summary, as the fields the text is formatted from
ChangeSummary(change) ==
    CASE change.change_type = "Added" ->
             <<"Added", change.item.id, change.item.priority, change.item.status>>
      [] change.change_type = "Updated" ->
             <<"Updated", change.item.id, change.item.status, change.item.priority>>
      [] change.change_type = "Removed" ->
             <<"Removed", change.item.id, change.item.title>>

\* the highlights without the take(3)
TakeAll(s, n) == s

Take(s, n) == SubSeq(s, 1, IF Len(s) < n THEN Len(s) ELSE n)

Last(s) == s[Len(s)]

\* the summary of the report taken from this call alone, without the
\* fall back on the stored summaries
ReportSummaryOfThisCall(team, req, outcome) ==
    IF IsSome(outcome.pm_summary) THEN outcome.pm_summary
    ELSE IF req.role = Some("ProjectManager") /\ Trim(req.thought) # <<>>
         THEN Some(Trim(req.thought))
    ELSE None

\* the pm_summary of generate_report: the outcome's, or else the last
\* stored one, or else the request's trimmed thought if it is the project
\* manager's and not blank
ReportSummary(team, req, outcome) ==
    IF IsSome(outcome.pm_summary) THEN outcome.pm_summary
    ELSE IF team.pm_summaries # <<>> THEN Some(Last(team.pm_summaries))
    ELSE IF req.role = Some("ProjectManager") /\ Trim(req.thought) # <<>>
         THEN Some(Trim(req.thought))
    ELSE None

\* TeamState::generate_report.  A bullet is its label and the values its
\* text is formatted from.
GenerateReport(team, req, outcome) ==
    LET backlog_snapshot == OrderedBacklog(team)
        pm_summary == ReportSummary(team, req, outcome)
        consensus == IF IsSome(outcome.consensus_state)
                     THEN Unwrap(outcome.consensus_state)
                     ELSE team.consensus
        waiting_on_user == IF IsSome(outcome.awaiting_user_input)
                           THEN Unwrap(outcome.awaiting_user_input)
                           ELSE team.awaiting_user_input
        plan == IF IsSome(outcome.sprint_plan_updated)
                THEN outcome.sprint_plan_updated
                ELSE team.active_sprint
        pm_bullet ==
            [label |-> "PM summary",
             text |-> IF IsSome(pm_summary) THEN ""
                      ELSE "No project manager summary provided yet",
             items |-> pm_summary]
        discussion_bullet ==
            [label |-> "Discussion points",
             text |-> IF outcome.new_discussion_points = <<>>
                         /\ team.discussion_log = <<>>
                      THEN "none recorded yet" ELSE "",
             items |-> IF outcome.new_discussion_points # <<>>
                       THEN outcome.new_discussion_points
                       ELSE IF team.discussion_log # <<>>
                            THEN <<Last(team.discussion_log)>>
                       ELSE <<>>]
        backlog_bullet ==
            IF outcome.backlog_changes # <<>>
            THEN [label |-> "Backlog updates",
                  text |-> "",
                  items |-> [i \in 1..Len(outcome.backlog_changes) |->
                                 ChangeSummary(outcome.backlog_changes[i])]]
            ELSE IF backlog_snapshot = <<>>
                 THEN [label |-> "Backlog updates",
                       text |-> "backlog is empty",
                       items |-> <<>>]
            ELSE [label |-> "Backlog focus",
                  text |-> "",
                  items |-> [i \in 1..Len(Take(backlog_snapshot, 3)) |->
                                 <<backlog_snapshot[i].id,
                                   backlog_snapshot[i].priority,
                                   backlog_snapshot[i].status>>]]
        sprint_bullet ==
            [label |-> "Sprint plan",
             text |-> IF IsSome(plan) THEN "" ELSE "not yet defined",
             items |-> plan]
        consensus_bullet ==
            [label |-> "Consensus",
             ready_for_code_change |-> consensus.ready_for_code_changes,
             blockers_text |-> IF consensus.blockers = <<>> THEN "none" ELSE "",
             blockers |-> consensus.blockers,
             notes_text |-> IF IsSome(consensus.notes)
                               /\ Trim(Unwrap(consensus.notes)) # <<>>
                            THEN "" ELSE "no additional notes",
             notes |-> IF IsSome(consensus.notes)
                          /\ Trim(Unwrap(consensus.notes)) # <<>>
                       THEN consensus.notes ELSE None,
             waiting_on_user |-> waiting_on_user]
    IN  [bullets |-> <<pm_bullet, discussion_bullet, backlog_bullet,
                       sprint_bullet, consensus_bullet>>,
         pm_summary |-> pm_summary,
         new_discussion_points |-> outcome.new_discussion_points,
         backlog_snapshot |-> backlog_snapshot,
         active_sprint |-> team.active_sprint,
         consensus |-> consensus,
         waiting_on_user |-> waiting_on_user]

----------------------------------------------------------------------------
(* ThoughtGraph *)

\* From<DeliberateThinkingRequest> for ThoughtData
ThoughtData(req) ==
    [thought |-> req.thought,
     thought_number |-> req.thought_number,
     total_thoughts |-> req.total_thoughts,
     next_thought_needed |-> req.next_thought_needed,
     is_revision |-> req.is_revision,
     revises_thought |-> req.revises_thought,
     branch_from_thought |-> req.branch_from_thought,
     branch_id |-> req.branch_id,
     needs_more_thoughts |-> req.needs_more_thoughts]

\* DeliberateThinkingState::default
DefaultState ==
    [thought_history |-> <<>>,
     branches |-> EmptyMap,
     current_branch |-> None,
     team |-> DefaultTeam]

\* get_current_history without the branch lookup
GetMainHistory(st) == st.thought_history

\* DeliberateThinkingState::get_current_history
GetCurrentHistory(st) ==
    IF IsSome(st.current_branch) /\ Unwrap(st.current_branch) \in DOMAIN st.branches
    THEN st.branches[Unwrap(st.current_branch)]
    ELSE st.thought_history

\* DeliberateThinkingState::get_history_length
GetHistoryLength(st) == Len(GetCurrentHistory(st))

\* DeliberateThinkingState::get_branch_names (the HashMap's keys, in no order)
GetBranchNames(st) == DOMAIN st.branches

\* Iterator::take_while(|t| t.thought_number <= branch_from)
RECURSIVE TakeWhile(_, _)
TakeWhile(thoughts, branch_from) ==
    IF thoughts = <<>> THEN <<>>
    ELSE IF Head(thoughts).thought_number <= branch_from
         THEN <<Head(thoughts)>> \o TakeWhile(Tail(thoughts), branch_from)
    ELSE <<>>

\* handle_branching without the contains_key test: the branch is derived
\* from the main line on every fork
HandleBranchingRederived(st, branch_from, branch_id, thought_data) ==
    [st EXCEPT !.branches =
                   (branch_id :> Append(TakeWhile(st.thought_history, branch_from),
                                        thought_data)) @@ st.branches,
               !.current_branch = Some(branch_id)]

\* handle_branching without the insert of a new branch: an unknown branch
\* id only moves the pointer
HandleBranchingWithoutInsert(st, branch_from, branch_id, thought_data) ==
    IF branch_id \in DOMAIN st.branches
    THEN [st EXCEPT !.branches[branch_id] = Append(@, thought_data),
                    !.current_branch = Some(branch_id)]
    ELSE [st EXCEPT !.current_branch = Some(branch_id)]

\* DeliberateThinkingState::handle_branching
HandleBranching(st, branch_from, branch_id, thought_data) ==
    LET created == IF branch_id \in DOMAIN st.branches THEN st.branches
                   ELSE (branch_id :> TakeWhile(st.thought_history, branch_from))
                        @@ st.branches
    IN  [st EXCEPT !.branches = [created EXCEPT ![branch_id] =
                                     Append(@, thought_data)],
                   !.current_branch = Some(branch_id)]

\* position of the first thought numbered `revises`, 0 if there is none
FindFirst(thoughts, revises) ==
    IF \E i \in 1..Len(thoughts) : thoughts[i].thought_number = revises
    THEN CHOOSE i \in 1..Len(thoughts) :
             /\ thoughts[i].thought_number = revises
             /\ \A j \in 1..(i - 1) : thoughts[j].thought_number # revises
    ELSE 0

\* revise_or_append that pushes even when a thought matches
AlwaysAppend(thoughts, revises, thought_data) == Append(thoughts, thought_data)

\* revise_or_append without the else branch
ReviseOnly(thoughts, revises, thought_data) ==
    IF FindFirst(thoughts, revises) # 0
    THEN [thoughts EXCEPT ![FindFirst(thoughts, revises)] = thought_data]
    ELSE thoughts

\* revise_or_append as a rewind: the records after the revised one are dropped
ReviseTruncating(thoughts, revises, thought_data) ==
    IF FindFirst(thoughts, revises) # 0
    THEN Append(SubSeq(thoughts, 1, FindFirst(thoughts, revises) - 1), thought_data)
    ELSE Append(thoughts, thought_data)

\* revise_or_append with filter in the place of find: every thought
\* numbered `revises` is replaced
ReviseEveryMatch(thoughts, revises, thought_data) ==
    IF FindFirst(thoughts, revises) # 0
    THEN [i \in 1..Len(thoughts) |->
              IF thoughts[i].thought_number = revises THEN thought_data
              ELSE thoughts[i]]
    ELSE Append(thoughts, thought_data)

\* DeliberateThinkingState::revise_or_append
ReviseOrAppend(thoughts, revises, thought_data) ==
    IF FindFirst(thoughts, revises) # 0
    THEN [thoughts EXCEPT ![FindFirst(thoughts, revises)] = thought_data]
    ELSE Append(thoughts, thought_data)

\* DeliberateThinkingState::handle_revision
HandleRevision(st, revises, thought_data) ==
    IF IsSome(st.current_branch)
    THEN IF Unwrap(st.current_branch) \in DOMAIN st.branches
         THEN [st EXCEPT !.branches[Unwrap(st.current_branch)] =
                             ReviseOrAppend(@, revises, thought_data)]
         ELSE st
    ELSE [st EXCEPT !.thought_history = ReviseOrAppend(@, revises, thought_data)]

\* add_thought without the match on current_branch
AddThoughtToMainLine(st, thought_data) ==
    [st EXCEPT !.thought_history = Append(@, thought_data)]

\* DeliberateThinkingState::add_thought
AddThought(st, thought_data) ==
    IF IsSome(st.current_branch)
    THEN IF Unwrap(st.current_branch) \in DOMAIN st.branches
         THEN [st EXCEPT !.branches[Unwrap(st.current_branch)] =
                             Append(@, thought_data)]
         ELSE st
    ELSE [st EXCEPT !.thought_history = Append(@, thought_data)]

\* the match with the revision arm first
ApplyThoughtRevisionFirst(st, req) ==
    IF IsSome(req.revises_thought)
    THEN HandleRevision(st, Unwrap(req.revises_thought), ThoughtData(req))
    ELSE IF IsSome(req.branch_from_thought) /\ IsSome(req.branch_id)
         THEN HandleBranching(st, Unwrap(req.branch_from_thought),
                              Unwrap(req.branch_id), ThoughtData(req))
    ELSE AddThought(st, ThoughtData(req))

\* the match with the fork arm as (_, Some(branch_id), _): a branch id
\* alone forks, from the call's own thought number
ApplyThoughtForkingOnBranchId(st, req) ==
    IF IsSome(req.branch_id)
    THEN HandleBranching(st,
                         IF IsSome(req.branch_from_thought)
                         THEN Unwrap(req.branch_from_thought)
                         ELSE req.thought_number,
                         Unwrap(req.branch_id), ThoughtData(req))
    ELSE IF IsSome(req.revises_thought)
         THEN HandleRevision(st, Unwrap(req.revises_thought), ThoughtData(req))
    ELSE AddThought(st, ThoughtData(req))

\* the match on (branch_from_thought, branch_id, revises_thought)
ApplyThought(st, req) ==
    IF IsSome(req.branch_from_thought) /\ IsSome(req.branch_id)
    THEN HandleBranching(st, Unwrap(req.branch_from_thought),
                         Unwrap(req.branch_id), ThoughtData(req))
    ELSE IF IsSome(req.revises_thought)
         THEN HandleRevision(st, Unwrap(req.revises_thought), ThoughtData(req))
    ELSE AddThought(st, ThoughtData(req))

----------------------------------------------------------------------------
(* The tool handler *)

\* DeliberateThinkingResponse::new, serialized into the successful result
NewResponse(req, branches, thought_history_length, pm_report) ==
    [kind |-> "ok",
     thought_number |-> req.thought_number,
     total_thoughts |-> req.total_thoughts,
     next_thought_needed |-> req.next_thought_needed,
     branches |-> branches,
     thought_history_length |-> thought_history_length,
     pm_report |-> pm_report]

\* create_validation_error: code -32602
ValidationError == [kind |-> "invalid_params"]

\* create_serialization_error: code -32603
SerializationError == [kind |-> "internal"]

\* the critical section with the branch names and the history length read
\* before the graph update
CriticalSectionReadingBeforeUpdate(st, req) ==
    LET merged == ProcessRequest(st.team, req)
        updated == ApplyThought([st EXCEPT !.team = merged.team], req)
    IN  [state |-> updated,
         outcome |-> merged.outcome,
         response |-> NewResponse(req, GetBranchNames(st),
                                  GetHistoryLength(st),
                                  GenerateReport(updated.team, req, merged.outcome))]

\* the critical section of deliberate_thinking, from process_request to the
\* response value: the state it leaves and the response it builds
CriticalSection(st, req) ==
    LET merged == ProcessRequest(st.team, req)
        updated == ApplyThought([st EXCEPT !.team = merged.team], req)
    IN  [state |-> updated,
         outcome |-> merged.outcome,
         response |-> NewResponse(req, GetBranchNames(updated),
                                  GetHistoryLength(updated),
                                  GenerateReport(updated.team, req, merged.outcome))]

\* deliberate_thinking with the team merge ahead of the validation
HandleMergeBeforeValidate(st, req, serialized) ==
    IF ~Validate(req)
    THEN [state |-> [st EXCEPT !.team = ProcessRequest(st.team, req).team],
          response |-> ValidationError]
    ELSE [state |-> CriticalSection(st, req).state,
          response |-> IF serialized THEN CriticalSection(st, req).response
                       ELSE SerializationError]

\* deliberate_thinking as one call: `serialized` is whether
\* serde_json::to_value returned Ok
Handle(st, req, serialized) ==
    IF ~Validate(req) THEN [state |-> st, response |-> ValidationError]
    ELSE [state |-> CriticalSection(st, req).state,
          response |-> IF serialized THEN CriticalSection(st, req).response
                       ELSE SerializationError]

----------------------------------------------------------------------------
(* Requests *)

Callers == 1..NumCallers

\* the body of the n-th call of a session: n letters, so that every call's
\* thought record can be told from every other's
Body(n) == [i \in 1..n |-> "k"]

\* a request with only the required fields
PlainRequest(thought, thought_number) ==
    [thought |-> thought,
     next_thought_needed |-> TRUE,
     thought_number |-> thought_number,
     total_thoughts |-> MaxOrd,
     is_revision |-> None,
     revises_thought |-> None,
     branch_from_thought |-> None,
     branch_id |-> None,
     needs_more_thoughts |-> None,
     role |-> None,
     discussion_points |-> <<>>,
     backlog_stories |-> <<>>,
     remove_story_ids |-> <<>>,
     sprint_plan |-> None,
     consensus_update |-> None,
     requires_user_input |-> None]

\* revision targets of the requests: absent, or the lowest ordinal
RevisionTargets == {None, Some(1)}

\* (fork origin, branch id) of the requests: neither, a branch id alone, and
\* a fork from the lowest ordinal to either branch
ForkFields ==
    {<<None, None>>, <<None, Some("alt")>>,
     <<Some(1), Some("alt")>>, <<Some(1), Some("exp")>>}

\* the requests of the n-th call: every thought number from 0 (which the
\* validator rejects) to MaxOrd, with every revision target and fork fields
GraphRequests(n) ==
    {[PlainRequest(Body(n), tn) EXCEPT !.revises_thought = r,
                                       !.branch_from_thought = f[1],
                                       !.branch_id = f[2]] :
        tn \in 0..MaxOrd, r \in RevisionTargets, f \in ForkFields}

\* strings of the team fields
Blank == <<" ">>

StoryA ==
    [id |-> <<"A">>, title |-> <<"A", " ", "B">>, priority |-> "High",
     status |-> "Todo", owner |-> None, notes |-> None]

PlanA ==
    [sprint_name |-> <<"A">>, goal |-> <<"B">>, duration_days |-> 1,
     participants |-> <<>>, committed_story_ids |-> <<<<"A">>>>, risks |-> <<>>]

ConsensusA ==
    [ready_for_code_changes |-> TRUE, blockers |-> <<<<"B">>>>, notes |-> None]

\* the valid team requests of the n-th call: a bare append; a project
\* manager summary (padded, so that trimming shows); a fork carrying every
\* collaboration field; a revision that removes the story and whose thought
\* becomes a derived discussion point
TeamBases(n) ==
    {PlainRequest(Body(n), 1),
     [PlainRequest(<<" ">> \o Body(n) \o <<" ">>, 1) EXCEPT
          !.role = Some("ProjectManager")],
     [PlainRequest(Body(n), 1) EXCEPT
          !.role = Some("PragmaticProgrammer"),
          !.discussion_points = <<[role |-> "ProductVisionary", detail |-> <<"n">>]>>,
          !.backlog_stories = <<StoryA>>,
          !.sprint_plan = Some(PlanA),
          !.consensus_update = Some(ConsensusA),
          !.requires_user_input = Some(TRUE),
          !.branch_from_thought = Some(1),
          !.branch_id = Some("alt")],
     [PlainRequest(Body(n), 1) EXCEPT
          !.role = Some("ProductVisionary"),
          !.remove_story_ids = <<<<"A">>>>,
          !.revises_thought = Some(1)]}

BreakKinds ==
    {"thoughtNumber", "totalThoughts", "revisesThought", "branchFromThought",
     "summary", "discussionPoints.detail", "backlogStories.id",
     "backlogStories.title", "removeStoryIds", "sprintPlan.sprintName",
     "sprintPlan.goal", "sprintPlan.durationDays"}

\* `req` with one field changed so that the named check of the validator fails
Break(req, kind) ==
    CASE kind = "thoughtNumber" -> [req EXCEPT !.thought_number = 0]
      [] kind = "totalThoughts" -> [req EXCEPT !.total_thoughts = 0]
      [] kind = "revisesThought" -> [req EXCEPT !.revises_thought = Some(0)]
      [] kind = "branchFromThought" -> [req EXCEPT !.branch_from_thought = Some(0)]
      [] kind = "summary" ->
             [req EXCEPT !.role = Some("ProjectManager"), !.thought = Blank]
      [] kind = "discussionPoints.detail" ->
             [req EXCEPT !.discussion_points =
                  Append(@, [role |-> "ProductVisionary", detail |-> Blank])]
      [] kind = "backlogStories.id" ->
             [req EXCEPT !.backlog_stories = Append(@, [StoryA EXCEPT !.id = <<>>])]
      [] kind = "backlogStories.title" ->
             [req EXCEPT !.backlog_stories =
                  Append(@, [StoryA EXCEPT !.title = Blank])]
      [] kind = "removeStoryIds" ->
             [req EXCEPT !.remove_story_ids = Append(@, Blank)]
      [] kind = "sprintPlan.sprintName" ->
             [req EXCEPT !.sprint_plan = Some([PlanA EXCEPT !.sprint_name = Blank])]
      [] kind = "sprintPlan.goal" ->
             [req EXCEPT !.sprint_plan = Some([PlanA EXCEPT !.goal = <<>>])]
      [] kind = "sprintPlan.durationDays" ->
             [req EXCEPT !.sprint_plan = Some([PlanA EXCEPT !.duration_days = 0])]

TeamRequests(n) ==
    TeamBases(n) \cup {Break(req, kind) : req \in TeamBases(n), kind \in BreakKinds}

\* (revision target, fork origin, branch id) of the concurrent callers'
\* requests: an append, a revision and a fork
ConcShapes ==
    {<<None, None, None>>, <<Some(1), None, None>>, <<None, Some(1), Some("alt")>>}

\* the requests of concurrent callers: thought number 0 (rejected) or 1,
\* each with a role, so that every accepted call changes the team state as
\* well as the thought graph
ConcRequests(n) ==
    {[PlainRequest(Body(n), tn) EXCEPT !.role = Some("PragmaticProgrammer"),
                                       !.revises_thought = f[1],
                                       !.branch_from_thought = f[2],
                                       !.branch_id = f[3]] :
        tn \in 0..1, f \in ConcShapes}

----------------------------------------------------------------------------
(* The session, one call at a time *)

NoCall == [kind |-> "none"]

Init ==
    /\ state = DefaultState
    /\ request = NoCall
    /\ response = NoCall
    /\ prev = DefaultState
    /\ calls = 0
    /\ lock = None
    /\ pc = [p \in Callers |-> "idle"]
    /\ local = [p \in Callers |-> NoCall]

\* one call of deliberate_thinking, run to its return
DeliberateThinking(req, serialized) ==
    /\ calls < MaxCalls
    /\ calls' = calls + 1
    /\ request' = req
    /\ prev' = state
    /\ state' = Handle(state, req, serialized).state
    /\ response' = Handle(state, req, serialized).response
    /\ UNCHANGED <<lock, pc, local>>

Next ==
    \E req \in GraphRequests(calls + 1), serialized \in BOOLEAN :
        DeliberateThinking(req, serialized)

Spec == Init /\ [][Next]_vars

NextTeam ==
    \E req \in TeamRequests(calls + 1), serialized \in BOOLEAN :
        DeliberateThinking(req, serialized)

SpecTeam == Init /\ [][NextTeam]_vars

----------------------------------------------------------------------------
(* The session under concurrent callers: deliberate_thinking step by step *)

\* a lock that is granted whoever holds it
MutexNeverHeld(holder) == TRUE

\* tokio::sync::Mutex: lock().await completes only while nobody holds it
MutexAvailable(holder) == holder = None

\* request.validate()?: a rejected call returns at once, an accepted one
\* goes on to wait for the lock
Enter(p, req) ==
    /\ pc[p] = "idle"
    /\ calls < MaxCalls
    /\ calls' = calls + 1
    /\ IF Validate(req)
       THEN /\ pc' = [pc EXCEPT ![p] = "lock"]
            /\ local' = [local EXCEPT ![p] = [kind |-> "call", request |-> req]]
       ELSE /\ pc' = pc
            /\ local' = [local EXCEPT ![p] =
                             [kind |-> "returned", request |-> req,
                              result |-> ValidationError]]
    /\ UNCHANGED <<state, request, response, prev, lock>>

\* let mut state = self.state.lock().await; `entry` records the state found
Acquire(p) ==
    /\ pc[p] = "lock"
    /\ MutexAvailable(lock)
    /\ lock' = Some(p)
    /\ pc' = [pc EXCEPT ![p] = "merge"]
    /\ local' = [local EXCEPT ![p] =
                     [kind |-> "call", request |-> local[p].request,
                      entry |-> state]]
    /\ UNCHANGED <<state, request, response, prev, calls>>

\* let team_outcome = state.team.process_request(&request);
Merge(p) ==
    /\ pc[p] = "merge"
    /\ state' = [state EXCEPT !.team =
                     ProcessRequest(state.team, local[p].request).team]
    /\ pc' = [pc EXCEPT ![p] = "apply"]
    /\ local' = [local EXCEPT ![p] =
                     [kind |-> "call", request |-> local[p].request,
                      entry |-> local[p].entry,
                      team_outcome |->
                          ProcessRequest(state.team, local[p].request).outcome]]
    /\ UNCHANGED <<request, response, prev, calls, lock>>

\* the match that updates the thought graph
Apply(p) ==
    /\ pc[p] = "apply"
    /\ state' = ApplyThought(state, local[p].request)
    /\ pc' = [pc EXCEPT ![p] = "report"]
    /\ UNCHANGED <<request, response, prev, calls, lock, local>>

\* generate_report and DeliberateThinkingResponse::new
Report(p) ==
    /\ pc[p] = "report"
    /\ pc' = [pc EXCEPT ![p] = "serialize"]
    /\ local' = [local EXCEPT ![p] =
                     [kind |-> "call", request |-> local[p].request,
                      entry |-> local[p].entry,
                      team_outcome |-> local[p].team_outcome,
                      response |->
                          NewResponse(local[p].request, GetBranchNames(state),
                                      GetHistoryLength(state),
                                      GenerateReport(state.team, local[p].request,
                                                     local[p].team_outcome))]]
    /\ UNCHANGED <<state, request, response, prev, calls, lock>>

\* the return with the guard leaked (std::mem::forget): the lock stays held
ReturnKeepingLock(p, serialized) ==
    /\ pc[p] = "serialize"
    /\ pc' = [pc EXCEPT ![p] = "idle"]
    /\ local' = [local EXCEPT ![p] =
                     [kind |-> "returned", request |-> local[p].request,
                      entry |-> local[p].entry,
                      result |-> IF serialized THEN local[p].response
                                 ELSE SerializationError]]
    /\ UNCHANGED <<state, request, response, prev, calls, lock>>

\* serde_json::to_value and the return, which drops the guard
Return(p, serialized) ==
    /\ pc[p] = "serialize"
    /\ lock' = None
    /\ pc' = [pc EXCEPT ![p] = "idle"]
    /\ local' = [local EXCEPT ![p] =
                     [kind |-> "returned", request |-> local[p].request,
                      entry |-> local[p].entry,
                      result |-> IF serialized THEN local[p].response
                                 ELSE SerializationError]]
    /\ UNCHANGED <<state, request, response, prev, calls>>

NextConc ==
    \E p \in Callers :
        \/ \E req \in ConcRequests(calls + 1) : Enter(p, req)
        \/ Acquire(p)
        \/ Merge(p)
        \/ Apply(p)
        \/ Report(p)
        \/ \E serialized \in BOOLEAN : Return(p, serialized)

SpecConc == Init /\ [][NextConc]_vars

\* the requests of callers whose progress is followed: a rejected call and
\* an accepted append with a role
FairRequests(n) ==
    {[PlainRequest(Body(n), tn) EXCEPT !.role = Some("PragmaticProgrammer")] :
        tn \in 0..1}

NextFair ==
    \E p \in Callers :
        \/ \E req \in FairRequests(calls + 1) : Enter(p, req)
        \/ Acquire(p)
        \/ Merge(p)
        \/ Apply(p)
        \/ Report(p)
        \/ \E serialized \in BOOLEAN : Return(p, serialized)

\* the scheduling the runtime gives: tokio's Mutex hands the lock to its
\* waiters in the order they asked (strong fairness of taking it), and the
\* code between lock().await and the return has no await, so a call that
\* holds the lock runs on (weak fairness of each of its steps)
Fairness ==
    \A p \in Callers :
        /\ SF_vars(Acquire(p))
        /\ WF_vars(Merge(p))
        /\ WF_vars(Apply(p))
        /\ WF_vars(Report(p))
        /\ WF_vars(\E serialized \in BOOLEAN : Return(p, serialized))

SpecConcFair == Init /\ [][NextFair]_vars /\ Fairness

----------------------------------------------------------------------------
(* The session on backlog requests *)

Story(id, priority, status) ==
    [id |-> id, title |-> <<"A">>, priority |-> priority, status |-> status,
     owner |-> None, notes |-> None]

\* the story lists a call may carry: none; one story (story A in two
\* versions, so that an upsert can overwrite); the same story twice in one
\* list; two stories of different ids
StoryLists ==
    {<<>>,
     <<Story(<<"A">>, "High", "Todo")>>,
     <<Story(<<"A">>, "Low", "Done")>>,
     <<Story(<<"B">>, "High", "InProgress")>>,
     <<Story(<<"A", "B">>, "High", "Todo")>>,
     <<Story(<<"B", "A">>, "Medium", "Blocked")>>,
     <<Story(<<"A">>, "High", "Todo"), Story(<<"A">>, "High", "Todo")>>,
     <<Story(<<"A", "B">>, "High", "Todo"), Story(<<"B", "A">>, "Medium", "Blocked")>>,
     <<Story(<<"B">>, "High", "InProgress"), Story(<<"A">>, "Low", "Done")>>}

\* the removal lists a call may carry, one of them naming an id twice
RemovalLists == {<<>>, <<<<"A">>>>, <<<<"B">>>>, <<<<"A">>, <<"A">>>>}

BacklogRequests(n) ==
    {[PlainRequest(Body(n), 1) EXCEPT
          !.backlog_stories = stories,
          !.remove_story_ids = ids] :
        stories \in StoryLists, ids \in RemovalLists}

NextBacklog ==
    \E req \in BacklogRequests(calls + 1), serialized \in BOOLEAN :
        DeliberateThinking(req, serialized)

SpecBacklog == Init /\ [][NextBacklog]_vars

----------------------------------------------------------------------------
(* The session on requests that carry any subset of the collaboration fields *)

ConsensusNoted ==
    [ready_for_code_changes |-> TRUE, blockers |-> <<<<"B">>>>,
     notes |-> Some(<<"n">>)]

ConsensusCleared ==
    [ready_for_code_changes |-> FALSE, blockers |-> <<>>, notes |-> None]

CollaborationFields ==
    {"role", "discussion_points", "backlog_stories", "sprint_plan",
     "consensus_update", "requires_user_input"}

\* a call that appends one thought and carries the fields of `present`
FieldRequest(present, update) ==
    [PlainRequest(<<"k">>, 1) EXCEPT
         !.role = IF "role" \in present THEN Some("ProjectManager") ELSE None,
         !.discussion_points =
             IF "discussion_points" \in present
             THEN <<[role |-> "ProductVisionary", detail |-> <<"n">>]>> ELSE <<>>,
         !.backlog_stories =
             IF "backlog_stories" \in present THEN <<StoryA>> ELSE <<>>,
         !.sprint_plan = IF "sprint_plan" \in present THEN Some(PlanA) ELSE None,
         !.consensus_update =
             IF "consensus_update" \in present THEN Some(update) ELSE None,
         !.requires_user_input =
             IF "requires_user_input" \in present THEN Some(TRUE) ELSE None]

\* the requests with no field, one field, all fields but one, or all
\* fields; the consensus update comes with blockers and notes, with
\* blockers only, or with neither
FieldRequests(n) ==
    {FieldRequest(present, update) :
        present \in {fields \in SUBSET CollaborationFields :
                         \/ Cardinality(fields) <= 1
                         \/ Cardinality(CollaborationFields \ fields) <= 1},
        update \in {ConsensusNoted, ConsensusA, ConsensusCleared}}

NextFields ==
    \E req \in FieldRequests(calls + 1), serialized \in BOOLEAN :
        DeliberateThinking(req, serialized)

SpecFields == Init /\ [][NextFields]_vars

----------------------------------------------------------------------------
(* The session on requests at the edges of the validator *)

\* the strings validate_non_empty rejects: empty and whitespace only
Blanks == {<<>>, <<" ">>, <<" ", " ">>}

\* a valid request with every checked field present, every checked string
\* padded with whitespace and every checked number at its minimum
PaddedRequest(n) ==
    [PlainRequest(<<" ">> \o Body(n), 1) EXCEPT
         !.total_thoughts = 1,
         !.revises_thought = Some(1),
         !.branch_from_thought = Some(1),
         !.role = Some("ProjectManager"),
         !.discussion_points =
             <<[role |-> "PragmaticProgrammer", detail |-> <<" ", "n">>]>>,
         !.backlog_stories =
             <<[StoryA EXCEPT !.id = <<"A", " ">>, !.title = <<" ", "A">>]>>,
         !.remove_story_ids = <<<<" ", "B", " ">>>>,
         !.sprint_plan =
             Some([PlanA EXCEPT !.sprint_name = <<"A", " ">>, !.goal = <<" ", "B">>])]

\* `req` with one field changed so that the named check of the validator
\* fails, `blank` being the string put where the check wants a non-blank one
BreakWith(req, kind, blank) ==
    CASE kind = "thoughtNumber" -> [req EXCEPT !.thought_number = 0]
      [] kind = "totalThoughts" -> [req EXCEPT !.total_thoughts = 0]
      [] kind = "revisesThought" -> [req EXCEPT !.revises_thought = Some(0)]
      [] kind = "branchFromThought" -> [req EXCEPT !.branch_from_thought = Some(0)]
      [] kind = "summary" ->
             [req EXCEPT !.role = Some("ProjectManager"), !.thought = blank]
      [] kind = "discussionPoints.detail" ->
             [req EXCEPT !.discussion_points =
                  Append(@, [role |-> "ProductVisionary", detail |-> blank])]
      [] kind = "backlogStories.id" ->
             [req EXCEPT !.backlog_stories = Append(@, [StoryA EXCEPT !.id = blank])]
      [] kind = "backlogStories.title" ->
             [req EXCEPT !.backlog_stories =
                  Append(@, [StoryA EXCEPT !.title = blank])]
      [] kind = "removeStoryIds" ->
             [req EXCEPT !.remove_story_ids = Append(@, blank)]
      [] kind = "sprintPlan.sprintName" ->
             [req EXCEPT !.sprint_plan = Some([PlanA EXCEPT !.sprint_name = blank])]
      [] kind = "sprintPlan.goal" ->
             [req EXCEPT !.sprint_plan = Some([PlanA EXCEPT !.goal = blank])]
      [] kind = "sprintPlan.durationDays" ->
             [req EXCEPT !.sprint_plan = Some([PlanA EXCEPT !.duration_days = 0])]

\* the valid team requests and the padded one, and each of them failing
\* one check in each way the model can spell
ValidatorRequests(n) ==
    LET bases == TeamBases(n) \cup {PaddedRequest(n)}
    IN  bases \cup {BreakWith(req, kind, blank) :
                       req \in bases, kind \in BreakKinds, blank \in Blanks}

NextValidator ==
    \E req \in ValidatorRequests(calls + 1), serialized \in BOOLEAN :
        DeliberateThinking(req, serialized)

SpecValidator == Init /\ [][NextValidator]_vars

----------------------------------------------------------------------------
(* The session on requests with a role, a thought and discussion points *)

\* two explicit points, the second with a padded detail
PointsA ==
    <<[role |-> "ProductVisionary", detail |-> <<"n">>],
      [role |-> "PragmaticProgrammer", detail |-> <<" ", "k">>]>>

\* no role, the project manager or another role; a padded or a blank
\* thought; explicit discussion points or none
NarrativeRequests(n) ==
    {[PlainRequest(thought, 1) EXCEPT
          !.role = role,
          !.discussion_points = points] :
        thought \in {<<" ">> \o Body(n) \o <<" ">>, Blank},
        role \in {None, Some("ProjectManager"), Some("PragmaticProgrammer")},
        points \in {<<>>, PointsA}}

NextNarrative ==
    \E req \in NarrativeRequests(calls + 1), serialized \in BOOLEAN :
        DeliberateThinking(req, serialized)

SpecNarrative == Init /\ [][NextNarrative]_vars

----------------------------------------------------------------------------
(* The session on requests that set the sprint, the consensus and the flag *)

PlanB == [PlanA EXCEPT !.sprint_name = <<"B">>, !.duration_days = 2]

\* a call carries no sprint plan, one of two, or one the validator rejects
\* (duration 0); no consensus update or one of two; no requires-user-input
\* or either value
FacetRequests(n) ==
    {[PlainRequest(<<"k">>, 1) EXCEPT
          !.sprint_plan = plan,
          !.consensus_update = update,
          !.requires_user_input = needs_input] :
        plan \in {None, Some(PlanA), Some(PlanB),
                  Some([PlanB EXCEPT !.duration_days = 0])},
        update \in {None, Some(ConsensusNoted), Some(ConsensusCleared)},
        needs_input \in {None, Some(TRUE), Some(FALSE)}}

NextFacets ==
    \E req \in FacetRequests(calls + 1), serialized \in BOOLEAN :
        DeliberateThinking(req, serialized)

SpecFacets == Init /\ [][NextFacets]_vars

----------------------------------------------------------------------------
(* The session on requests with both, one or none of the fork fields *)

\* (fork origin, branch id): neither, each alone, and a fork to either branch
PartialForkFields ==
    {<<None, None>>, <<None, Some("alt")>>, <<Some(1), None>>,
     <<Some(1), Some("alt")>>, <<Some(1), Some("exp")>>}

PartialForkRequests(n) ==
    {[PlainRequest(Body(n), 1) EXCEPT !.revises_thought = r,
                                      !.branch_from_thought = f[1],
                                      !.branch_id = f[2]] :
        r \in RevisionTargets, f \in PartialForkFields}

NextPartialFork ==
    \E req \in PartialForkRequests(calls + 1), serialized \in BOOLEAN :
        DeliberateThinking(req, serialized)

SpecPartialFork == Init /\ [][NextPartialFork]_vars

----------------------------------------------------------------------------
(* Vocabulary of the claims *)

\* the latest call passed validation, so its merges were applied
Accepted == calls > 0 /\ Validate(request)

IsFork(req) == IsSome(req.branch_from_thought) /\ IsSome(req.branch_id)

IsRevision(req) == ~IsFork(req) /\ IsSome(req.revises_thought)

IsAppend(req) == ~IsFork(req) /\ ~IsSome(req.revises_thought)

\* the context the active-branch pointer selects
ActiveContext(st) ==
    IF IsSome(st.current_branch) THEN st.branches[Unwrap(st.current_branch)]
    ELSE st.thought_history

Ordinals(thoughts) == {thoughts[i].thought_number : i \in 1..Len(thoughts)}

\* the latest call changed no context other than the active one of `prev`
\* and left the pointer alone
OnlyActiveContextChanged ==
    /\ state.current_branch = prev.current_branch
    /\ DOMAIN state.branches = DOMAIN prev.branches
    /\ \A b \in DOMAIN prev.branches :
           Some(b) # prev.current_branch => state.branches[b] = prev.branches[b]
    /\ IsSome(prev.current_branch) => state.thought_history = prev.thought_history

----------------------------------------------------------------------------
(* Claims *)

\* C1: a request that fails a check of the validator gets the
\* invalid-params error and leaves the whole session state (main line,
\* branches, pointer and every part of the team state) as it was.
C1_RejectedRequestHasNoEffect ==
    (calls > 0 /\ ~Validate(request))
    => (response = ValidationError /\ state = prev)

C1_Witness ==
    /\ calls > 0 /\ ~Validate(request)
    /\ response = ValidationError
    /\ request.backlog_stories # <<>> /\ request.discussion_points # <<>>
    /\ IsSome(request.sprint_plan)
    /\ prev.thought_history # <<>> /\ IsSome(prev.current_branch)
    /\ prev.team.pm_summaries # <<>> /\ prev.team.discussion_log # <<>>
    /\ DOMAIN prev.team.backlog # {} /\ prev.team.consensus # DefaultConsensus
    /\ prev.team.awaiting_user_input

\* C2: a fork call naming a branch that does not exist yet creates it as
\* all main-line records with ordinal <= fork origin, in main-line order,
\* followed by the new record.
C2_ForkCopiesEveryRecordUpToOrigin ==
    (Accepted /\ IsFork(request)
        /\ Unwrap(request.branch_id) \notin DOMAIN prev.branches)
    => state.branches[Unwrap(request.branch_id)] =
           Append(SelectSeq(prev.thought_history,
                            LAMBDA t : t.thought_number
                                           <= Unwrap(request.branch_from_thought)),
                  ThoughtData(request))

\* C3: once a branch is active, a call without both fork fields changes
\* that branch and nothing else, the pointer stays on it, the main line is
\* never changed again, and a plain call repeating the branch id grows the
\* branch by one record.
C3_ActiveBranchIsSticky ==
    (Accepted /\ IsSome(prev.current_branch))
    => /\ state.thought_history = prev.thought_history
       /\ IsSome(state.current_branch)
       /\ ~IsFork(request) =>
              /\ OnlyActiveContextChanged
              /\ ActiveContext(state) # ActiveContext(prev)
       /\ (IsAppend(request) /\ request.branch_id = prev.current_branch) =>
              Len(state.branches[Unwrap(request.branch_id)]) =
                  Len(prev.branches[Unwrap(request.branch_id)]) + 1

C3_Witness ==
    /\ Accepted /\ IsAppend(request)
    /\ IsSome(prev.current_branch) /\ request.branch_id = prev.current_branch
    /\ prev.thought_history # <<>>
    /\ Len(ActiveContext(state)) = Len(prev.thought_history) + 2

\* C4: a revision call whose target ordinal occurs in the active context
\* puts the new record in the place of a record with that ordinal; length,
\* all other records, all other contexts and the pointer are unchanged.
C4_RevisionReplacesInPlace ==
    (Accepted /\ IsRevision(request)
        /\ Unwrap(request.revises_thought) \in Ordinals(ActiveContext(prev)))
    => /\ OnlyActiveContextChanged
       /\ \E i \in 1..Len(ActiveContext(prev)) :
              /\ ActiveContext(prev)[i].thought_number
                     = Unwrap(request.revises_thought)
              /\ ActiveContext(state) =
                     [ActiveContext(prev) EXCEPT ![i] = ThoughtData(request)]

C4_Witness ==
    /\ Accepted /\ IsRevision(request)
    /\ IsSome(prev.current_branch)
    /\ Len(ActiveContext(prev)) >= 2
    /\ Unwrap(request.revises_thought) \in Ordinals(ActiveContext(prev))
    /\ ActiveContext(state)[1] = ThoughtData(request)

\* C5: a revision call whose target ordinal does not occur in the active
\* context appends the new record to that context and changes nothing else.
C5_RevisionOfMissingOrdinalAppends ==
    (Accepted /\ IsRevision(request)
        /\ Unwrap(request.revises_thought) \notin Ordinals(ActiveContext(prev)))
    => /\ OnlyActiveContextChanged
       /\ ActiveContext(state) = Append(ActiveContext(prev), ThoughtData(request))

C5_Witness ==
    /\ Accepted /\ IsRevision(request)
    /\ IsSome(prev.current_branch)
    /\ ActiveContext(prev) # <<>>
    /\ Unwrap(request.revises_thought) \notin Ordinals(ActiveContext(prev))
    /\ Len(ActiveContext(state)) = Len(ActiveContext(prev)) + 1

\* C6: a valid call with no revision target and not both fork fields
\* appends the new record to the active context, leaves the pointer alone,
\* and reports the previous current-context length plus one.
C6_AppendGrowsActiveContextByOne ==
    (Accepted /\ IsAppend(request))
    => /\ OnlyActiveContextChanged
       /\ ActiveContext(state) = Append(ActiveContext(prev), ThoughtData(request))
       /\ response.kind = "ok" =>
              response.thought_history_length = Len(ActiveContext(prev)) + 1

C6_Witness ==
    /\ Accepted /\ IsAppend(request)
    /\ IsSome(prev.current_branch)
    /\ response.kind = "ok"
    /\ response.thought_history_length = Len(ActiveContext(prev)) + 1
    /\ response.thought_history_length # Len(state.thought_history) + 1

\* C7: a fork call naming an existing branch appends the new record to it
\* and makes it active; its earlier records stay as they were, whatever the
\* fork origin and the main line are.
C7_ForkToExistingBranchOnlyAppends ==
    (Accepted /\ IsFork(request)
        /\ Unwrap(request.branch_id) \in DOMAIN prev.branches)
    => /\ state.branches =
              [prev.branches EXCEPT ![Unwrap(request.branch_id)] =
                   Append(@, ThoughtData(request))]
       /\ state.current_branch = request.branch_id
       /\ state.thought_history = prev.thought_history

C7_Witness ==
    /\ Accepted /\ IsFork(request)
    /\ Unwrap(request.branch_id) \in DOMAIN prev.branches
    /\ prev.current_branch # request.branch_id
    /\ prev.branches[Unwrap(request.branch_id)] #
           TakeWhile(prev.thought_history, Unwrap(request.branch_from_thought))

\* C8: a call with both fork fields and a revision target is a fork: the
\* new record is the last of the named branch, that branch is active, and
\* every context keeps all the records it had.
C8_ForkWinsOverRevision ==
    (Accepted /\ IsFork(request) /\ IsSome(request.revises_thought))
    => /\ state.current_branch = request.branch_id
       /\ Last(state.branches[Unwrap(request.branch_id)]) = ThoughtData(request)
       /\ state.thought_history = prev.thought_history
       /\ \A b \in DOMAIN prev.branches :
              /\ b \in DOMAIN state.branches
              /\ IF Some(b) = request.branch_id
                 THEN state.branches[b] =
                          Append(prev.branches[b], ThoughtData(request))
                 ELSE state.branches[b] = prev.branches[b]

C8_Witness ==
    /\ Accepted /\ IsFork(request) /\ IsSome(request.revises_thought)
    /\ Unwrap(request.branch_id) \in DOMAIN prev.branches
    /\ Unwrap(request.revises_thought) \in Ordinals(ActiveContext(prev))
    /\ Unwrap(request.revises_thought)
           \in Ordinals(prev.branches[Unwrap(request.branch_id)])

\* C9: calls exclude each other from the lock to the return.  At most one
\* caller is inside; what a caller inside finds is what its own steps made
\* of the state it entered with; and the state it leaves and the response
\* it returns are those of the whole call run alone on the state it entered
\* with, so the calls take effect one after another in the order they took
\* the lock.
InCriticalSection(p) == pc[p] \in {"merge", "apply", "report", "serialize"}

C9_CallsAreSerialized ==
    /\ \A p, q \in Callers :
           (InCriticalSection(p) /\ InCriticalSection(q)) => p = q
    /\ \A p \in Callers :
           /\ InCriticalSection(p) => lock = Some(p)
           /\ pc[p] = "merge" => state = local[p].entry
           /\ pc[p] = "apply" =>
                  state = [local[p].entry EXCEPT !.team =
                               ProcessRequest(local[p].entry.team,
                                              local[p].request).team]
           /\ pc[p] \in {"report", "serialize"} =>
                  state = CriticalSection(local[p].entry, local[p].request).state
           /\ pc[p] = "serialize" =>
                  /\ local[p].response =
                         CriticalSection(local[p].entry, local[p].request).response
                  /\ local[p].response.thought_history_length =
                         Len(ActiveContext(state))
                  /\ local[p].response.pm_report.new_discussion_points
                         = local[p].team_outcome.new_discussion_points
           /\ (local[p].kind = "returned" /\ local[p].result.kind = "ok") =>
                  local[p].result =
                      CriticalSection(local[p].entry, local[p].request).response

C9_Witness ==
    \E p, q \in Callers :
        /\ pc[p] = "serialize" /\ pc[q] = "lock"
        /\ local[p].entry.thought_history # <<>>
        /\ local[p].entry.team.discussion_log # <<>>
        /\ local[p].response.thought_history_length >= 2

Range(s) == {s[i] : i \in 1..Len(s)}

\* the third bullet of the report of the latest call, when it lists the
\* call's backlog changes
ChangeBullet == response.pm_report.bullets[3]

\* C11: the backlog holds one item per id, filed under its own id; an
\* upsert of an id that is already there overwrites that item and leaves
\* the others alone; the i-th upsert of a call is reported as Updated when
\* its id was in the backlog before the call or earlier in the same list,
\* and as Added otherwise, so the same item given twice is one entry.
C11_UpsertKeepsOneItemPerId ==
    Accepted =>
        LET stories == request.backlog_stories
            removed == Range(request.remove_story_ids)
            upserted == {stories[i].id : i \in 1..Len(stories)}
            backlog == state.team.backlog
            LastOf(id) ==
                stories[CHOOSE i \in 1..Len(stories) :
                            /\ stories[i].id = id
                            /\ \A j \in (i + 1)..Len(stories) : stories[j].id # id]
            SeenBefore(i) ==
                \/ stories[i].id \in DOMAIN prev.team.backlog
                \/ \E j \in 1..(i - 1) : stories[j].id = stories[i].id
        IN  /\ \A k \in DOMAIN backlog : backlog[k].id = k
            /\ DOMAIN backlog = (DOMAIN prev.team.backlog \cup upserted) \ removed
            /\ \A k \in upserted \ removed : backlog[k] = LastOf(k)
            /\ \A k \in DOMAIN backlog \ upserted : backlog[k] = prev.team.backlog[k]
            /\ response.kind = "ok" =>
                   /\ \A i, j \in 1..Len(response.pm_report.backlog_snapshot) :
                          response.pm_report.backlog_snapshot[i].id =
                              response.pm_report.backlog_snapshot[j].id => i = j
                   /\ \A i \in 1..Len(stories) :
                          /\ ChangeBullet.items[i][1] =
                                 IF SeenBefore(i) THEN "Updated" ELSE "Added"
                          /\ ChangeBullet.items[i][2] = stories[i].id

\* the same item twice in one list, its id new to a backlog that holds
\* another item
C11_Witness ==
    /\ Accepted /\ response.kind = "ok"
    /\ Len(request.backlog_stories) = 2
    /\ request.backlog_stories[1] = request.backlog_stories[2]
    /\ request.backlog_stories[1].id \notin DOMAIN prev.team.backlog
    /\ DOMAIN prev.team.backlog # {}
    /\ Cardinality(DOMAIN state.team.backlog) = Cardinality(DOMAIN prev.team.backlog) + 1
    /\ ChangeBullet.items[1][1] = "Added" /\ ChangeBullet.items[2][1] = "Updated"


\* the backlog changes the report of the latest call lists: the bullet
\* shows them under "Backlog updates" and shows the backlog itself otherwise
ReportedChanges ==
    IF ChangeBullet.label = "Backlog updates" THEN ChangeBullet.items ELSE <<>>

\* C12: a removal id that is not in the backlog when its turn comes changes
\* nothing and is not reported, and the call succeeds; a removal id that is
\* there deletes that one item and is reported once as Removed.  (The
\* removals of a call run after its upserts.)
C12_RemovalOfAbsentIdIsNoOp ==
    (Accepted /\ request.remove_story_ids # <<>>) =>
        LET ids == request.remove_story_ids
            stories == request.backlog_stories
            before == DOMAIN prev.team.backlog
                          \cup {stories[i].id : i \in 1..Len(stories)}
            removals == SubSeq(ReportedChanges, Len(stories) + 1,
                               Len(ReportedChanges))
        IN  /\ response # ValidationError
            /\ DOMAIN state.team.backlog = before \ Range(ids)
            /\ (stories = <<>> /\ Range(ids) \cap before = {})
                   => state.team.backlog = prev.team.backlog
            /\ \A k \in DOMAIN state.team.backlog \cap DOMAIN prev.team.backlog :
                   (\A i \in 1..Len(stories) : stories[i].id # k)
                       => state.team.backlog[k] = prev.team.backlog[k]
            /\ response.kind = "ok" =>
                   /\ \A i \in 1..Len(removals) :
                          /\ removals[i][1] = "Removed"
                          /\ removals[i][2] \in Range(ids) \cap before
                   /\ \A id \in Range(ids) :
                          Cardinality({i \in 1..Len(removals) : removals[i][2] = id})
                              = IF id \in before THEN 1 ELSE 0

\* one list that names a stored id twice: the first removal finds the
\* item, the second finds nothing; the other items stay
C12_Witness ==
    /\ Accepted /\ response.kind = "ok"
    /\ request.backlog_stories = <<>>
    /\ Len(request.remove_story_ids) = 2
    /\ request.remove_story_ids[1] = request.remove_story_ids[2]
    /\ request.remove_story_ids[1] \in DOMAIN prev.team.backlog
    /\ DOMAIN state.team.backlog
           = DOMAIN prev.team.backlog \ {request.remove_story_ids[1]}
    /\ DOMAIN state.team.backlog # {}
    /\ Len(ReportedChanges) = 1 /\ ReportedChanges[1][1] = "Removed"


\* the position of x in a sequence that holds it once
Position(order, x) == CHOOSE i \in 1..Len(order) : order[i] = x

\* the snapshot order as the claim words it: priority, then status, then id
SnapshotBefore(a, b) ==
    LET priority == <<"High", "Medium", "Low">>
        status == <<"InProgress", "Todo", "Blocked", "Done">>
        ids == <<<<"A">>, <<"A", "B">>, <<"B">>, <<"B", "A">>>>
    IN  \/ Position(priority, a.priority) < Position(priority, b.priority)
        \/ /\ a.priority = b.priority
           /\ Position(status, a.status) < Position(status, b.status)
        \/ /\ a.priority = b.priority /\ a.status = b.status
           /\ Position(ids, a.id) < Position(ids, b.id)

\* every backlog item a request of the model can be built from
AllStories ==
    {Story(id, priority, status) :
        id \in {<<"A">>, <<"A", "B">>, <<"B">>, <<"B", "A">>},
        priority \in PriorityLevel, status \in StoryStatus}

\* C13: the backlog snapshot of every response holds each item of the
\* backlog exactly once, in the order priority (High, Medium, Low), then
\* status (InProgress, Todo, Blocked, Done), then id ascending; the
\* comparison of the code is a strict total order on items of distinct ids.
C13_SnapshotIsWholeBacklogInOrder ==
    (calls > 0 /\ response.kind = "ok") =>
        LET snapshot == response.pm_report.backlog_snapshot
            backlog == state.team.backlog
            items == {backlog[k] : k \in DOMAIN backlog}
        IN  /\ Len(snapshot) = Cardinality(DOMAIN backlog)
            /\ Range(snapshot) = items
            /\ \A i, j \in 1..Len(snapshot) :
                   i < j => SnapshotBefore(snapshot[i], snapshot[j])
            /\ \A a, b \in AllStories :
                   /\ ~ItemLess(a, a)
                   /\ a.id # b.id => (ItemLess(a, b) <=> ~ItemLess(b, a))
                   /\ ItemLess(a, b) <=> SnapshotBefore(a, b)
            /\ \A a, b, c \in items :
                   (ItemLess(a, b) /\ ItemLess(b, c)) => ItemLess(a, c)

\* four items, more than the bullet's three and more than this call's two
\* changes, ordered by status within one priority and by id within one
\* priority and status
C13_Witness ==
    /\ calls > 0 /\ response.kind = "ok"
    /\ Len(request.backlog_stories) = 2
    /\ Len(response.pm_report.backlog_snapshot) = 4
    /\ response.pm_report.backlog_snapshot[1].status = "InProgress"
    /\ response.pm_report.backlog_snapshot[2].status = "Todo"
    /\ response.pm_report.backlog_snapshot[2].id = <<"A">>
    /\ response.pm_report.backlog_snapshot[3].status = "Todo"
    /\ response.pm_report.backlog_snapshot[3].id = <<"A", "B">>
    /\ response.pm_report.backlog_snapshot[4].priority = "Medium"


\* the fifth bullet of the report of the latest call
ConsensusBullet == response.pm_report.bullets[5]

\* C14: a consensus update replaces the stored ready flag, blocker list
\* and notes by its own; an update with no blockers (no notes) leaves the
\* stored and the reported blockers empty (notes absent) whatever was there.
C14_ConsensusUpdateReplaces ==
    (Accepted /\ IsSome(request.consensus_update)) =>
        LET update == Unwrap(request.consensus_update)
            replaced == [ready_for_code_changes |-> update.ready_for_code_changes,
                         blockers |-> update.blockers,
                         notes |-> update.notes]
        IN  /\ state.team.consensus = replaced
            /\ response.kind = "ok" =>
                   /\ response.pm_report.consensus = replaced
                   /\ ConsensusBullet.ready_for_code_change
                          = update.ready_for_code_changes
                   /\ ConsensusBullet.blockers = update.blockers
                   /\ update.blockers = <<>> => ConsensusBullet.blockers_text = "none"
                   /\ ConsensusBullet.notes = update.notes
                   /\ update.notes = None
                          => ConsensusBullet.notes_text = "no additional notes"

\* an update with no blockers and no notes on a consensus that had both
C14_Witness ==
    /\ Accepted /\ response.kind = "ok"
    /\ prev.team.consensus.blockers # <<>>
    /\ IsSome(prev.team.consensus.notes)
    /\ prev.team.consensus.ready_for_code_changes
    /\ request.consensus_update = Some(ConsensusCleared)
    /\ state.team.consensus.blockers = <<>>
    /\ state.team.consensus.notes = None
    /\ response.pm_report.consensus.blockers = <<>>


\* C15: a call leaves alone each part of the team state whose field it
\* does not carry: the active sprint without a sprint plan, the consensus
\* without a consensus update, the waiting flag without requires-user-input,
\* the backlog without stories and removal ids, the PM summaries and the
\* discussion log without a role and discussion points.
C15_AbsentFieldsLeaveTeamStateAlone ==
    Accepted =>
        /\ request.sprint_plan = None
               => state.team.active_sprint = prev.team.active_sprint
        /\ request.consensus_update = None
               => state.team.consensus = prev.team.consensus
        /\ request.requires_user_input = None
               => state.team.awaiting_user_input = prev.team.awaiting_user_input
        /\ (request.backlog_stories = <<>> /\ request.remove_story_ids = <<>>)
               => state.team.backlog = prev.team.backlog
        /\ (request.role = None /\ request.discussion_points = <<>>)
               => /\ state.team.pm_summaries = prev.team.pm_summaries
                  /\ state.team.discussion_log = prev.team.discussion_log

\* a call with no collaboration field at all, on a session in which every
\* part of the team state has been set: the thought is stored, the team
\* state stays
C15_Witness ==
    /\ Accepted /\ response.kind = "ok"
    /\ request.role = None /\ request.discussion_points = <<>>
    /\ request.backlog_stories = <<>> /\ request.remove_story_ids = <<>>
    /\ request.sprint_plan = None /\ request.consensus_update = None
    /\ request.requires_user_input = None
    /\ prev.team.pm_summaries # <<>> /\ prev.team.discussion_log # <<>>
    /\ DOMAIN prev.team.backlog # {} /\ IsSome(prev.team.active_sprint)
    /\ prev.team.consensus = ConsensusNoted /\ prev.team.awaiting_user_input
    /\ state.team = prev.team
    /\ Len(state.thought_history) = Len(prev.thought_history) + 1


\* blank: nothing but whitespace, so nothing is left after trimming
IsBlank(s) == \A i \in 1..Len(s) : IsWhitespace(s[i])

\* the conditions the claim lists
ListedChecksHold(req) ==
    /\ req.thought_number >= 1
    /\ req.total_thoughts >= 1
    /\ IsSome(req.revises_thought) => Unwrap(req.revises_thought) >= 1
    /\ IsSome(req.branch_from_thought) => Unwrap(req.branch_from_thought) >= 1
    /\ req.role = Some("ProjectManager") => ~IsBlank(req.thought)
    /\ \A i \in 1..Len(req.discussion_points) :
           ~IsBlank(req.discussion_points[i].detail)
    /\ \A i \in 1..Len(req.backlog_stories) :
           /\ ~IsBlank(req.backlog_stories[i].id)
           /\ ~IsBlank(req.backlog_stories[i].title)
    /\ \A i \in 1..Len(req.remove_story_ids) : ~IsBlank(req.remove_story_ids[i])
    /\ IsSome(req.sprint_plan) =>
           /\ ~IsBlank(Unwrap(req.sprint_plan).sprint_name)
           /\ ~IsBlank(Unwrap(req.sprint_plan).goal)
           /\ Unwrap(req.sprint_plan).duration_days >= 1

\* C16: the validator passes a request, and the call gets past it, exactly
\* when the thought number, the total, the revision target and the fork
\* origin (if present) are >= 1, a project manager's thought is not blank,
\* no discussion point detail, backlog item id or title, or removal id is
\* blank, and an attached sprint plan has a non-blank name and goal and a
\* duration >= 1.
C16_ValidatorPassesIffListedChecksHold ==
    calls > 0 =>
        /\ Validate(request) <=> ListedChecksHold(request)
        /\ response # ValidationError <=> ListedChecksHold(request)

\* a request that is accepted with every check in play: each optional
\* field present, the strings padded, the numbers at their minimum
C16_Witness ==
    /\ calls > 1
    /\ response.kind = "ok"
    /\ request.thought[1] = " " /\ request.role = Some("ProjectManager")
    /\ request.total_thoughts = 1
    /\ request.revises_thought = Some(1) /\ request.branch_from_thought = Some(1)
    /\ request.discussion_points # <<>> /\ request.backlog_stories # <<>>
    /\ request.remove_story_ids # <<>> /\ IsSome(request.sprint_plan)
    /\ Len(state.thought_history) = Len(prev.thought_history)
    /\ state.team.pm_summaries # prev.team.pm_summaries


\* s with the whitespace at its two ends taken off: the part of s that
\* neither starts nor ends with whitespace and has only whitespace around it
TrimmedBody(s) ==
    CHOOSE t \in {SubSeq(s, a, b) : a \in 1..(Len(s) + 1), b \in 0..Len(s)} :
        /\ t # <<>> => ~IsWhitespace(t[1]) /\ ~IsWhitespace(t[Len(t)])
        /\ \E before, after \in {[i \in 1..m |-> " "] : m \in 0..Len(s)} :
               s = before \o t \o after

\* C17: an accepted call of the project manager appends its trimmed,
\* non-blank thought to the PM summaries, reports it as pmSummary, and puts
\* nothing but the request's explicit points on the discussion log.
C17_ProjectManagerCallRecordsSummary ==
    (Accepted /\ request.role = Some("ProjectManager")) =>
        /\ TrimmedBody(request.thought) # <<>>
        /\ state.team.pm_summaries
               = Append(prev.team.pm_summaries, TrimmedBody(request.thought))
        /\ state.team.discussion_log
               = prev.team.discussion_log \o request.discussion_points
        /\ response.kind = "ok" =>
               /\ response.pm_report.pm_summary = Some(TrimmedBody(request.thought))
               /\ response.pm_report.bullets[1].items
                      = Some(TrimmedBody(request.thought))
               /\ response.pm_report.new_discussion_points
                      = request.discussion_points

\* a second summary, given with a padded thought and no explicit points
C17_Witness ==
    /\ Accepted /\ response.kind = "ok"
    /\ request.role = Some("ProjectManager")
    /\ request.discussion_points = <<>>
    /\ request.thought[1] = " " /\ request.thought[Len(request.thought)] = " "
    /\ prev.team.pm_summaries # <<>>
    /\ response.pm_report.pm_summary = Some(Body(calls))
    /\ Last(prev.team.pm_summaries) # Body(calls)
    /\ state.team.discussion_log = prev.team.discussion_log


\* the point the claim has a call derive from its thought, if it derives one
DerivedPoint ==
    IF /\ IsSome(request.role)
       /\ request.role # Some("ProjectManager")
       /\ request.discussion_points = <<>>
       /\ ~IsBlank(request.thought)
    THEN <<[role |-> Unwrap(request.role),
            detail |-> TrimmedBody(request.thought)]>>
    ELSE <<>>

\* C18: an accepted call puts a derived discussion point (its role, its
\* trimmed thought) on the log, and reports it as new, exactly when it has a
\* role other than project manager, no explicit points and a non-blank
\* thought; any other call logs and reports its explicit points and
\* nothing else.
C18_DerivedPointExactlyWhenNoExplicitPoints ==
    Accepted =>
        /\ state.team.discussion_log
               = prev.team.discussion_log \o request.discussion_points
                     \o DerivedPoint
        /\ response.kind = "ok" =>
               response.pm_report.new_discussion_points
                   = request.discussion_points \o DerivedPoint

\* a programmer's call without explicit points, on a log that has entries
C18_Witness ==
    /\ Accepted /\ response.kind = "ok"
    /\ request.role = Some("PragmaticProgrammer")
    /\ request.discussion_points = <<>>
    /\ prev.team.discussion_log # <<>>
    /\ Len(state.team.discussion_log) = Len(prev.team.discussion_log) + 1
    /\ Last(state.team.discussion_log)
           = [role |-> "PragmaticProgrammer", detail |-> Body(calls)]
    /\ response.pm_report.new_discussion_points
           = <<Last(state.team.discussion_log)>>

\* C19: the discussion log only grows at its end: the log before a call
\* is a prefix of the log after it; a call with explicit points adds those
\* points, as given and in their order, and nothing else; the report's new
\* discussion points are what the call added to the log.
C19_DiscussionLogIsAppendOnly ==
    calls > 0 =>
        LET before == prev.team.discussion_log
            after == state.team.discussion_log
        IN  /\ Len(before) <= Len(after)
            /\ SubSeq(after, 1, Len(before)) = before
            /\ (Accepted /\ request.discussion_points # <<>>)
                   => SubSeq(after, Len(before) + 1, Len(after))
                          = request.discussion_points
            /\ response.kind = "ok"
                   => response.pm_report.new_discussion_points
                          = SubSeq(after, Len(before) + 1, Len(after))

\* two explicit points, given by a role other than project manager for the
\* second time: the log holds them twice
C19_Witness ==
    /\ Accepted /\ response.kind = "ok"
    /\ request.discussion_points = PointsA
    /\ request.role = Some("PragmaticProgrammer")
    /\ Len(prev.team.discussion_log) >= 2
    /\ SubSeq(prev.team.discussion_log, 1, 2) = PointsA
    /\ state.team.discussion_log = prev.team.discussion_log \o PointsA
    /\ response.pm_report.new_discussion_points = PointsA


\* the records of `before` that `after` shows changed are all numbered
\* `revises`, given as an Option: none may change when it is None
ChangedOnlyAt(before, after, revises) ==
    \A i \in 1..Len(before) :
        (i > Len(after) \/ after[i] # before[i])
            => (IsSome(revises) /\ before[i].thought_number = Unwrap(revises))

\* the revision target of the latest call if that call could revise the
\* context `prev` has active under the pointer `pointer`, None otherwise
RevisionIn(pointer) ==
    IF Accepted /\ IsRevision(request) /\ prev.current_branch = pointer
    THEN request.revises_thought
    ELSE None

\* C20: no call deletes a thought record: the main line and every branch
\* are at least as long after a call as before, every branch is still
\* there, and a record at a position differs after the call only if the
\* call was a revision of that record's ordinal made while its context was
\* the active one.
C20_ThoughtRecordsAreNeverDeleted ==
    calls > 0 =>
        /\ Len(state.thought_history) >= Len(prev.thought_history)
        /\ ChangedOnlyAt(prev.thought_history, state.thought_history,
                         RevisionIn(None))
        /\ DOMAIN prev.branches \subseteq DOMAIN state.branches
        /\ \A b \in DOMAIN prev.branches :
               /\ Len(state.branches[b]) >= Len(prev.branches[b])
               /\ ChangedOnlyAt(prev.branches[b], state.branches[b],
                                RevisionIn(Some(b)))

\* a revision inside a branch of two records replaces the first of them:
\* nothing is lost, the main line is as it was
C20_Witness ==
    /\ Accepted /\ IsRevision(request)
    /\ IsSome(prev.current_branch)
    /\ prev.thought_history # <<>>
    /\ state.thought_history = prev.thought_history
    /\ Len(prev.branches[Unwrap(prev.current_branch)]) = 2
    /\ Len(state.branches[Unwrap(prev.current_branch)]) = 2
    /\ state.branches[Unwrap(prev.current_branch)][1]
           # prev.branches[Unwrap(prev.current_branch)][1]
    /\ state.branches[Unwrap(prev.current_branch)][2]
           = prev.branches[Unwrap(prev.current_branch)][2]


\* the branch an accepted fork call names, as a set
ForkedBranch ==
    IF Accepted /\ IsFork(request) THEN {Unwrap(request.branch_id)} ELSE {}

\* C21: the branches of the session are those before the call and the one
\* an accepted fork names, so the set only grows; a successful response
\* echoes the request's thought number, total and next-thought-needed, lists
\* exactly those branches, and gives as history length the length of the
\* context that is active after the call, which for a fork to a new branch
\* is a prefix of the main line and one more record.
C21_ResponseEchoesAndReportsGraph ==
    calls > 0 =>
        /\ DOMAIN state.branches = DOMAIN prev.branches \cup ForkedBranch
        /\ response.kind = "ok" =>
               /\ response.thought_number = request.thought_number
               /\ response.total_thoughts = request.total_thoughts
               /\ response.next_thought_needed = request.next_thought_needed
               /\ response.branches = DOMAIN state.branches
               /\ IsSome(state.current_branch)
                      => /\ Unwrap(state.current_branch) \in DOMAIN state.branches
                         /\ response.thought_history_length
                                = Len(state.branches[Unwrap(state.current_branch)])
               /\ state.current_branch = None
                      => response.thought_history_length = Len(state.thought_history)
               /\ (IsFork(request)
                      /\ Unwrap(request.branch_id) \notin DOMAIN prev.branches)
                      => /\ state.current_branch = request.branch_id
                         /\ response.thought_history_length
                                <= Len(prev.thought_history) + 1
                         /\ SubSeq(state.branches[Unwrap(request.branch_id)], 1,
                                   response.thought_history_length - 1)
                                = SubSeq(prev.thought_history, 1,
                                         response.thought_history_length - 1)

\* a fork that creates the second branch of the session while the first is
\* active: two names reported, the length that of the new branch
C21_Witness ==
    /\ Accepted /\ response.kind = "ok" /\ IsFork(request)
    /\ IsSome(prev.current_branch)
    /\ Unwrap(request.branch_id) \notin DOMAIN prev.branches
    /\ Cardinality(response.branches) = 2
    /\ response.thought_history_length = 2
    /\ Len(prev.thought_history) = 1
    /\ state.branches[Unwrap(request.branch_id)][1] = prev.thought_history[1]


\* C22: a call takes the one session lock and nothing else, holds it only
\* from the lock to its return and gives it back there, so the lock is
\* never held by a caller that is not running; and under fair granting of
\* the lock every call that has started returns, with a result or an error.
C22_EveryCallReturns ==
    /\ [](\A p \in Callers :
              /\ lock = Some(p) <=> InCriticalSection(p)
              /\ pc[p] = "lock" => (lock = None \/ \E q \in Callers \ {p} :
                                                      InCriticalSection(q)))
    /\ \A p \in Callers :
           (pc[p] # "idle") ~> (pc[p] = "idle" /\ local[p].kind = "returned")

\* every caller has had a call accepted and returned, one of them having
\* found the state another one left
C22_Witness ==
    /\ lock = None
    /\ \A p \in Callers :
           /\ pc[p] = "idle" /\ local[p].kind = "returned"
           /\ local[p].result # ValidationError
    /\ \E p \in Callers : local[p].entry.thought_history # <<>>


\* the value a facet has after the latest call when the last value given
\* wins: the one this call carries if it was accepted and carries one, the
\* one before the call otherwise
LastSupplied(supplied, before) ==
    IF Accepted /\ IsSome(supplied) THEN Unwrap(supplied) ELSE before

\* C23: the active sprint, the consensus and the waiting flag are each the
\* value of the latest accepted call that carried one (from no sprint,
\* the default consensus and false at the start), and every response
\* reports the three as they are stored after its call's merge.
C23_LastSuppliedFacetWins ==
    /\ calls = 0 =>
           /\ state.team.active_sprint = None
           /\ state.team.consensus
                  = [ready_for_code_changes |-> FALSE, blockers |-> <<>>,
                     notes |-> None]
           /\ state.team.awaiting_user_input = FALSE
    /\ calls > 0 =>
           /\ state.team.active_sprint
                  = IF Accepted /\ IsSome(request.sprint_plan)
                    THEN request.sprint_plan ELSE prev.team.active_sprint
           /\ state.team.consensus
                  = LastSupplied(request.consensus_update, prev.team.consensus)
           /\ state.team.awaiting_user_input
                  = LastSupplied(request.requires_user_input,
                                 prev.team.awaiting_user_input)
           /\ response.kind = "ok" =>
                  /\ response.pm_report.active_sprint = state.team.active_sprint
                  /\ response.pm_report.bullets[4].items = state.team.active_sprint
                  /\ response.pm_report.consensus = state.team.consensus
                  /\ response.pm_report.waiting_on_user
                         = state.team.awaiting_user_input
                  /\ ConsensusBullet.waiting_on_user
                         = state.team.awaiting_user_input

\* a call that carries a second plan and switches the flag off, and no
\* consensus, on a session whose three facets were set before
C23_Witness ==
    /\ Accepted /\ response.kind = "ok"
    /\ prev.team.active_sprint = Some(PlanA)
    /\ prev.team.consensus = ConsensusNoted
    /\ prev.team.awaiting_user_input
    /\ request.sprint_plan = Some(PlanB)
    /\ request.consensus_update = None
    /\ request.requires_user_input = Some(FALSE)
    /\ response.pm_report.active_sprint = Some(PlanB)
    /\ response.pm_report.consensus = ConsensusNoted
    /\ ~response.pm_report.waiting_on_user


\* the last stored PM summary of a team state, as an Option
LatestSummary(team) ==
    IF team.pm_summaries # <<>> THEN Some(Last(team.pm_summaries)) ELSE None

\* C24: there is a stored PM summary exactly when a project-manager call
\* has been accepted; a call that records none itself reports the latest
\* one stored before it, and the placeholder if there is none; in every
\* response pmSummary is the latest summary stored after the call's merge,
\* so it does not depend on the request beyond what the merge stored.
C24_ReportedSummaryIsLatestStored ==
    /\ calls = 0 => state.team.pm_summaries = <<>>
    /\ calls > 0 =>
           /\ state.team.pm_summaries # <<>>
                  <=> \/ prev.team.pm_summaries # <<>>
                      \/ Accepted /\ request.role = Some("ProjectManager")
           /\ response.kind = "ok" =>
                  /\ request.role # Some("ProjectManager")
                         => /\ state.team.pm_summaries = prev.team.pm_summaries
                            /\ response.pm_report.pm_summary
                                   = LatestSummary(prev.team)
                  /\ response.pm_report.pm_summary = LatestSummary(state.team)
                  /\ response.pm_report.bullets[1].items
                         = response.pm_report.pm_summary
                  /\ response.pm_report.bullets[1].text
                             = "No project manager summary provided yet"
                         <=> state.team.pm_summaries = <<>>

\* a programmer's call, two calls after the project manager's: the report
\* still carries the manager's summary
C24_Witness ==
    /\ calls = 3 /\ Accepted /\ response.kind = "ok"
    /\ request.role = Some("PragmaticProgrammer")
    /\ ~IsBlank(request.thought)
    /\ prev.team.pm_summaries = <<Body(1)>>
    /\ response.pm_report.pm_summary = Some(Body(1))
    /\ response.pm_report.bullets[1].text = ""


\* the ids of `ids`, in order, that a removal finds among `present`: each
\* id at most once
RECURSIVE EffectiveRemovals(_, _)
EffectiveRemovals(ids, present) ==
    IF ids = <<>> THEN <<>>
    ELSE IF Head(ids) \in present
         THEN <<Head(ids)>> \o EffectiveRemovals(Tail(ids), present \ {Head(ids)})
    ELSE EffectiveRemovals(Tail(ids), present)

\* C25: the backlog bullet of a response lists this call's backlog changes
\* if there are any: its upserts in request order, then the removals that
\* found their item, in request order; otherwise, if the backlog has items,
\* the first three (or fewer) of the ordered snapshot; otherwise the
\* backlog-is-empty placeholder.
C25_BacklogBulletFallsBack ==
    (calls > 0 /\ response.kind = "ok") =>
        LET stories == request.backlog_stories
            before == DOMAIN prev.team.backlog
                          \cup {stories[i].id : i \in 1..Len(stories)}
            removals == EffectiveRemovals(request.remove_story_ids, before)
            snapshot == response.pm_report.backlog_snapshot
            bullet == response.pm_report.bullets[3]
            shown == IF Len(snapshot) < 3 THEN Len(snapshot) ELSE 3
        IN  IF stories # <<>> \/ removals # <<>>
            THEN /\ bullet.label = "Backlog updates" /\ bullet.text = ""
                 /\ Len(bullet.items) = Len(stories) + Len(removals)
                 /\ \A i \in 1..Len(stories) :
                        /\ bullet.items[i][1] \in {"Added", "Updated"}
                        /\ bullet.items[i][2] = stories[i].id
                        /\ {bullet.items[i][3], bullet.items[i][4]}
                               = {stories[i].priority, stories[i].status}
                 /\ \A i \in 1..Len(removals) :
                        /\ bullet.items[Len(stories) + i][1] = "Removed"
                        /\ bullet.items[Len(stories) + i][2] = removals[i]
                        /\ \A j \in 1..Len(snapshot) : snapshot[j].id # removals[i]
            ELSE IF DOMAIN state.team.backlog # {}
            THEN /\ bullet.label = "Backlog focus" /\ bullet.text = ""
                 /\ bullet.items = [i \in 1..shown |->
                                        <<snapshot[i].id, snapshot[i].priority,
                                          snapshot[i].status>>]
            ELSE /\ bullet.label = "Backlog updates"
                 /\ bullet.text = "backlog is empty"
                 /\ bullet.items = <<>>

\* a call without backlog changes on a backlog of four items: the bullet
\* shows the first three of the snapshot
C25_Witness ==
    /\ Accepted /\ response.kind = "ok"
    /\ request.backlog_stories = <<>> /\ request.remove_story_ids = <<>>
    /\ Len(response.pm_report.backlog_snapshot) = 4
    /\ response.pm_report.bullets[3].label = "Backlog focus"
    /\ Len(response.pm_report.bullets[3].items) = 3
    /\ response.pm_report.bullets[3].items[1][1]
           = response.pm_report.backlog_snapshot[1].id


\* C26: in every reachable state the active-branch pointer is unset or
\* names a branch of the branch map; so the record of an accepted append
\* or revision call is in the context the pointer selected, and a response
\* given while a branch is active reports that branch's length.
C26_PointerNamesExistingBranch ==
    /\ IsSome(state.current_branch)
           => Unwrap(state.current_branch) \in DOMAIN state.branches
    /\ (Accepted /\ ~IsFork(request)) =>
           /\ state.current_branch = prev.current_branch
           /\ \E i \in 1..Len(ActiveContext(state)) :
                  ActiveContext(state)[i] = ThoughtData(request)
           /\ ActiveContext(state) # ActiveContext(prev)
    /\ (calls > 0 /\ response.kind = "ok" /\ IsSome(state.current_branch)) =>
           response.thought_history_length
               = Len(state.branches[Unwrap(state.current_branch)])

\* an append made while a branch is active, the branch longer than the
\* main line: the record lands in the branch and its length is reported
C26_Witness ==
    /\ Accepted /\ IsAppend(request) /\ response.kind = "ok"
    /\ IsSome(prev.current_branch)
    /\ state.thought_history = prev.thought_history
    /\ Len(state.branches[Unwrap(state.current_branch)])
           = Len(prev.branches[Unwrap(prev.current_branch)]) + 1
    /\ response.thought_history_length > Len(state.thought_history)


\* C27: a context may hold several records of one ordinal: an append adds
\* its record whatever ordinals are there; a revision of ordinal N replaces
\* the first record numbered N of the active context and no other, so later
\* records numbered N stay as they are.
C27_RevisionReplacesEarliestMatchOnly ==
    /\ (Accepted /\ IsAppend(request)) =>
           ActiveContext(state)
               = Append(ActiveContext(prev), ThoughtData(request))
    /\ (Accepted /\ IsRevision(request)
           /\ Unwrap(request.revises_thought) \in Ordinals(ActiveContext(prev))) =>
           LET before == ActiveContext(prev)
               after == ActiveContext(state)
               target == Unwrap(request.revises_thought)
               earliest == CHOOSE i \in 1..Len(before) :
                               /\ before[i].thought_number = target
                               /\ \A j \in 1..Len(before) :
                                      before[j].thought_number = target => i <= j
           IN  /\ Len(after) = Len(before)
               /\ after[earliest] = ThoughtData(request)
               /\ \A i \in 1..Len(before) : i # earliest => after[i] = before[i]

\* a revision of ordinal 1 in a context whose two records are both
\* numbered 1: the first is replaced, the second stays
C27_Witness ==
    /\ Accepted /\ IsRevision(request)
    /\ Len(ActiveContext(prev)) = 2
    /\ ActiveContext(prev)[1].thought_number = 1
    /\ ActiveContext(prev)[2].thought_number = 1
    /\ ActiveContext(prev)[1] # ActiveContext(prev)[2]
    /\ Len(ActiveContext(state)) = 2
    /\ ActiveContext(state)[1] = ThoughtData(request)
    /\ ActiveContext(state)[2] = ActiveContext(prev)[2]


\* the ids a request both upserts and removes
UpsertedAndRemoved ==
    {request.backlog_stories[i].id : i \in 1..Len(request.backlog_stories)}
        \cap Range(request.remove_story_ids)

\* C28: the upserts of a call are applied before its removals: an id that
\* is in the stories and in the removal ids of one request is not in the
\* backlog or the snapshot after the call, and the reported changes list
\* its Added or Updated entries first and one Removed entry after them.
C28_UpsertsBeforeRemovals ==
    Accepted =>
        \A id \in UpsertedAndRemoved :
            /\ id \notin DOMAIN state.team.backlog
            /\ response.kind = "ok" =>
                   /\ \A j \in 1..Len(response.pm_report.backlog_snapshot) :
                          response.pm_report.backlog_snapshot[j].id # id
                   /\ \A i \in 1..Len(ReportedChanges) :
                          ReportedChanges[i][2] = id =>
                              (ReportedChanges[i][1] = "Removed"
                                   <=> i > Len(request.backlog_stories))
                   /\ \E i \in 1..Len(request.backlog_stories) :
                          /\ ReportedChanges[i][2] = id
                          /\ ReportedChanges[i][1] \in {"Added", "Updated"}
                   /\ Cardinality({i \in 1..Len(ReportedChanges) :
                                       /\ ReportedChanges[i][2] = id
                                       /\ ReportedChanges[i][1] = "Removed"}) = 1

\* a story new to the backlog, upserted and removed by the same call: the
\* backlog is as before, the changes are Added then Removed
C28_Witness ==
    /\ Accepted /\ response.kind = "ok"
    /\ Len(request.backlog_stories) = 1
    /\ request.remove_story_ids = <<request.backlog_stories[1].id>>
    /\ request.backlog_stories[1].id \notin DOMAIN prev.team.backlog
    /\ DOMAIN prev.team.backlog # {}
    /\ state.team.backlog = prev.team.backlog
    /\ Len(ReportedChanges) = 2
    /\ ReportedChanges[1][1] = "Added" /\ ReportedChanges[2][1] = "Removed"


\* the request carries exactly one of the two fork fields
HasOneForkField(req) ==
    IsSome(req.branch_from_thought) # IsSome(req.branch_id)

\* C29: an accepted call with a branch id but no fork origin, or a fork
\* origin but no branch id, creates no branch and leaves the pointer and
\* every context but the active one alone; it revises the active context if
\* it has a revision target and appends to it otherwise, whatever branch
\* its branch id names.
C29_OneForkFieldIsNoFork ==
    (Accepted /\ HasOneForkField(request)) =>
        LET before == ActiveContext(prev)
            after == ActiveContext(state)
        IN  /\ OnlyActiveContextChanged
            /\ IF /\ IsSome(request.revises_thought)
                  /\ Unwrap(request.revises_thought) \in Ordinals(before)
               THEN /\ Len(after) = Len(before)
                    /\ \E i \in 1..Len(before) :
                           /\ before[i].thought_number
                                  = Unwrap(request.revises_thought)
                           /\ after = [before EXCEPT ![i] = ThoughtData(request)]
               ELSE after = Append(before, ThoughtData(request))

\* an append that names branch "alt" without a fork origin while branch
\* "exp" is active and "alt" exists: it lands in "exp"
C29_Witness ==
    /\ Accepted /\ HasOneForkField(request)
    /\ request.revises_thought = None
    /\ request.branch_id = Some("alt")
    /\ prev.current_branch = Some("exp")
    /\ "alt" \in DOMAIN prev.branches
    /\ state.current_branch = Some("exp")
    /\ state.branches["alt"] = prev.branches["alt"]
    /\ Len(state.branches["exp"]) = Len(prev.branches["exp"]) + 1

====
